---- MODULE Spec2Model ----
(***************************************************************************)
(* Model of llava/model/multimodal_encoder/clip_encoder.py: the two vision *)
(* tower wrappers CLIPVisionTower and FlorenceVisionTower.  One tower      *)
(* object is modelled; its class and its constructor arguments are drawn   *)
(* in Init, __init__ is the first action, and every later action is one    *)
(* call of a method or property by the caller.  `ret' holds the outcome of *)
(* the last call (the value returned or the exception raised).             *)
(***************************************************************************)
EXTENDS Integers, Sequences, FiniteSets, TLC

VARIABLES
    kind,            \* which class the object is: "CLIP" or "Florence"
    args,            \* constructor arguments (args object and delay_load)
    constructed,     \* __init__ has returned
    is_loaded,       \* self.is_loaded
    select_layer,    \* self.select_layer   (CLIP only)
    select_feature,  \* self.select_feature (CLIP only)
    image_processor, \* self.image_processor
    vision_tower,    \* self.vision_tower (the held pretrained model)
    cfg_only,        \* self.cfg_only
    calls,           \* how often each pretrained loader has been invoked
    ret              \* outcome of the last call made by the caller

vars == <<kind, args, constructed, is_loaded, select_layer, select_feature,
          image_processor, vision_tower, cfg_only, calls, ret>>

fields == <<is_loaded, image_processor, vision_tower, cfg_only, calls>>

----------------------------------------------------------------------------
(* Bounds of the model *)

MaxImages == 2          \* longest image list / largest batch
NumHiddenStates == 3    \* entries of outputs.hidden_states
ImageSize == 4          \* config.image_size of the checkpoint
PatchSize == 2          \* config.patch_size of the checkpoint
HiddenSize == 8         \* config.hidden_size of the checkpoint

ImageIds == 1..2
\* dtypes of the images handed to forward
DTypes == {"float16", "float32"}
Kinds == {"CLIP", "Florence"}
UnfreezeArgs == {"absent", "False", "True"}
SelectFeatureArgs == {"absent", "patch", "cls_patch", "cls"}
\* first and last valid index from either end, and the first invalid ones
SelectLayerArgs == {0 - NumHiddenStates - 1, 0 - NumHiddenStates, 0 - 1,
                    0, NumHiddenStates - 1, NumHiddenStates}
DeviceMaps == {"None", "cuda"}

----------------------------------------------------------------------------
(* Values *)

Unset == [present |-> FALSE]

Ok(v) == [outcome |-> "ok", value |-> v]
Raise(e, m) == [outcome |-> e, message |-> m]
AttributeError(name) == Raise("AttributeError", <<"object has no attribute", name>>)

\* getattr(args, name, default)
GetAttr(a, name, default) == IF a[name] = "absent" THEN default ELSE a[name]

\* Python truth value of an attribute that is a bool
Truthy(v) == v = "True"

\* XConfig.from_pretrained(name) and model.config: the configuration stored
\* with the checkpoint; `of' tells the two objects apart.
PretrainedConfig(of) ==
    [present |-> TRUE, of |-> of, hidden_size |-> HiddenSize,
     image_size |-> ImageSize, patch_size |-> PatchSize]

\* XModel.from_pretrained(name, ...): a fresh model, parameters trainable.
FromPretrained(k, device_map) ==
    [present |-> TRUE, class |-> k, weights |-> "pretrained",
     requires_grad |-> TRUE,
     dtype |-> "float32",
     device |-> IF k = "CLIP" /\ device_map # "None" THEN device_map ELSE "cpu",
     config |-> PretrainedConfig("model")]

\* module.requires_grad_(flag)
RequiresGrad(m, flag) == [m EXCEPT !.requires_grad = flag]

\* module.to(dtype)
ModuleTo(m, dtype) == [m EXCEPT !.dtype = dtype]

----------------------------------------------------------------------------
(* load_model *)

\* Mutant of DoLoad: freezes only when the tower is not to be unfrozen.
DoLoadKeepsUnfrozen(device_map) ==
    /\ image_processor' = [present |-> TRUE, class |-> kind]
    /\ vision_tower' =
         RequiresGrad(IF kind = "CLIP"
                      THEN FromPretrained("CLIP", device_map)
                      ELSE ModuleTo(FromPretrained("Florence", "None"), "bfloat16"),
                      Truthy(GetAttr(args, "unfreeze_mm_vision_tower", "False")))
    /\ calls' = [processor |-> calls.processor + 1, model |-> calls.model + 1]
    /\ is_loaded' = TRUE
    /\ UNCHANGED cfg_only

\* Lines 29-33 / 113-117: the load itself.
DoLoad(device_map) ==
    /\ image_processor' = [present |-> TRUE, class |-> kind]
    /\ vision_tower' =
         IF kind = "CLIP"
         THEN RequiresGrad(FromPretrained("CLIP", device_map), FALSE)
         ELSE RequiresGrad(ModuleTo(FromPretrained("Florence", "None"), "bfloat16"), FALSE)
    /\ calls' = [processor |-> calls.processor + 1, model |-> calls.model + 1]
    /\ is_loaded' = TRUE
    /\ UNCHANGED cfg_only

\* Mutant of LoadModelBody: the is_loaded guard is missing.
LoadModelBodyNoGuard(loaded, device_map) == DoLoad(device_map)

\* The body of load_model as run with self.is_loaded = loaded.
LoadModelBody(loaded, device_map) ==
    IF loaded
    THEN \* prints the notice and returns
         /\ is_loaded' = loaded
         /\ UNCHANGED <<image_processor, vision_tower, cfg_only, calls>>
    ELSE DoLoad(device_map)

----------------------------------------------------------------------------
(* __init__ *)

\* The constructor arguments a class reads: FlorenceVisionTower reads neither
\* mm_vision_select_layer nor mm_vision_select_feature, so they are not varied
\* for it.
ArgsOf(k) ==
    [delay_load : BOOLEAN,
     unfreeze_mm_vision_tower : UnfreezeArgs,
     mm_vision_select_layer : IF k = "CLIP" THEN SelectLayerArgs ELSE {0 - 1},
     mm_vision_select_feature : IF k = "CLIP" THEN SelectFeatureArgs ELSE {"absent"}]

Init ==
    /\ kind \in Kinds
    /\ args \in ArgsOf(kind)
    /\ constructed = FALSE
    /\ is_loaded = FALSE
    /\ select_layer = 0
    /\ select_feature = "patch"
    /\ image_processor = Unset
    /\ vision_tower = Unset
    /\ cfg_only = Unset
    /\ calls = [processor |-> 0, model |-> 0]
    /\ ret = [op |-> "none", outcome |-> "ok"]

\* Mutant of CLIPInit: the unfreeze branch is missing.
CLIPInitIgnoresUnfreeze ==
    /\ kind = "CLIP"
    /\ select_layer' = args.mm_vision_select_layer
    /\ select_feature' = GetAttr(args, "mm_vision_select_feature", "patch")
    /\ IF ~args.delay_load
       THEN LoadModelBody(FALSE, "None")
       ELSE /\ cfg_only' = PretrainedConfig("cfg_only")
            /\ is_loaded' = FALSE
            /\ UNCHANGED <<image_processor, vision_tower, calls>>

CLIPInit ==
    /\ kind = "CLIP"
    /\ select_layer' = args.mm_vision_select_layer
    /\ select_feature' = GetAttr(args, "mm_vision_select_feature", "patch")
    /\ IF ~args.delay_load
       THEN LoadModelBody(FALSE, "None")
       ELSE IF Truthy(GetAttr(args, "unfreeze_mm_vision_tower", "False"))
       THEN LoadModelBody(FALSE, "None")
       ELSE /\ cfg_only' = PretrainedConfig("cfg_only")
            /\ is_loaded' = FALSE
            /\ UNCHANGED <<image_processor, vision_tower, calls>>

\* Mutant of FlorenceInit: a delayed load loads nothing.
FlorenceInitDelays ==
    /\ kind = "Florence"
    /\ UNCHANGED <<select_layer, select_feature>>
    /\ IF ~args.delay_load
       THEN LoadModelBody(FALSE, "None")
       ELSE IF Truthy(GetAttr(args, "unfreeze_mm_vision_tower", "False"))
       THEN LoadModelBody(FALSE, "None")
       ELSE /\ is_loaded' = FALSE
            /\ UNCHANGED <<image_processor, vision_tower, cfg_only, calls>>

FlorenceInit ==
    /\ kind = "Florence"
    /\ UNCHANGED <<select_layer, select_feature>>
    /\ IF ~args.delay_load
       THEN LoadModelBody(FALSE, "None")
       ELSE IF Truthy(GetAttr(args, "unfreeze_mm_vision_tower", "False"))
       THEN LoadModelBody(FALSE, "None")
       ELSE LoadModelBody(FALSE, "None")

Construct ==
    /\ ~constructed
    /\ CLIPInit \/ FlorenceInit
    /\ constructed' = TRUE
    /\ ret' = [op |-> "__init__", outcome |-> "ok"]
    /\ UNCHANGED <<kind, args>>

load_model ==
    /\ constructed
    /\ \E device_map \in DeviceMaps :
         /\ LoadModelBody(is_loaded, device_map)
         /\ ret' = [op |-> "load_model", outcome |-> "ok", skipped |-> is_loaded]
    /\ UNCHANGED <<kind, args, constructed, select_layer, select_feature>>

----------------------------------------------------------------------------
(* Tensors.  A tensor is [type, dtype, device, data]; data is indexed by   *)
(* the batch dimension first.  An image is a tensor whose data is its id.  *)

Tensor(dtype, device, data) ==
    [type |-> "tensor", dtype |-> dtype, device |-> device, data |-> data]

\* tensor.to(device=..., dtype=...)
To(t, device, dtype) == [t EXCEPT !.device = device, !.dtype = dtype]

\* tensor.to(dtype)
ToDType(t, dtype) == [t EXCEPT !.dtype = dtype]

\* tensor.unsqueeze(0)
Unsqueeze0(t) == [t EXCEPT !.data = <<t.data>>]

PyList(items) == [type |-> "list", items |-> items]
PyTuple(items) == [type |-> "tuple", items |-> items]

\* Inputs of forward
\* the single images a list is made of: two images of different dtypes, one
\* of them not the CLIP model's
Images == { Tensor("float16", "cpu", 1), Tensor("float32", "cpu", 2) }

ImageLists ==
    { PyList(l) : l \in UNION { [1..n -> Images] : n \in 0..MaxImages } }
ImageBatches ==
    { Tensor(d, "cpu", b) : d \in DTypes,
                            b \in UNION { [1..n -> ImageIds] : n \in 1..MaxImages } }

----------------------------------------------------------------------------
(* The wrapped CLIP vision model *)

NumPatches == (ImageSize \div PatchSize) * (ImageSize \div PatchSize)

\* CLIPVisionModel(pixel_values, output_hidden_states=True).hidden_states:
\* one tensor per layer, each [batch, 1 + num_patches] tokens with the class
\* token at position 0.  A token is <<layer, image, position>>.
HiddenStates(pixel_values) ==
    [l \in 1..NumHiddenStates |->
        Tensor(pixel_values.dtype, pixel_values.device,
               [b \in 1..Len(pixel_values.data) |->
                   [p \in 1..(1 + NumPatches) |-> <<l, pixel_values.data[b], p - 1>>]])]

\* Python's seq[k] on a tuple of length Len(seq)
PyIndexOk(seq, k) == k >= 0 - Len(seq) /\ k < Len(seq)
PyIndex(seq, k) == IF k < 0 THEN seq[Len(seq) + k + 1] ELSE seq[k + 1]

\* Mutant of SliceSeqFrom1: t[1:], the slice taken along the batch dimension.
SliceBatchFrom1(t) == [t EXCEPT !.data = SubSeq(t.data, 2, Len(t.data))]

\* t[:, 1:]
SliceSeqFrom1(t) ==
    [t EXCEPT !.data = [b \in 1..Len(t.data) |-> SubSeq(t.data[b], 2, Len(t.data[b]))]]

feature_select(hidden_states, layer, feature) ==
    IF ~PyIndexOk(hidden_states, layer)
    THEN Raise("IndexError", <<"tuple index out of range">>)
    ELSE LET image_features == PyIndex(hidden_states, layer) IN
         IF feature = "patch" THEN Ok(SliceSeqFrom1(image_features))
         ELSE IF feature = "cls_patch" THEN Ok(image_features)
         ELSE Raise("ValueError", <<"Unexpected select feature: ", feature>>)

----------------------------------------------------------------------------
(* Properties *)

dtype == IF vision_tower.present THEN Ok(vision_tower.dtype)
         ELSE AttributeError("vision_tower")

device == IF vision_tower.present THEN Ok(vision_tower.device)
          ELSE AttributeError("vision_tower")

\* Mutant of config: the cached config is preferred whenever it exists.
configPrefersCached ==
    IF cfg_only.present THEN Ok(cfg_only)
    ELSE IF vision_tower.present THEN Ok(vision_tower.config)
    ELSE AttributeError("vision_tower")

config ==
    IF is_loaded
    THEN IF vision_tower.present THEN Ok(vision_tower.config)
         ELSE AttributeError("vision_tower")
    ELSE IF cfg_only.present THEN Ok(cfg_only)
         ELSE AttributeError("cfg_only")

hidden_size ==
    IF config.outcome = "ok" THEN Ok(config.value.hidden_size) ELSE config

num_patches_per_side ==
    IF config.outcome = "ok"
    THEN Ok(config.value.image_size \div config.value.patch_size)
    ELSE config

num_patches ==
    IF config.outcome = "ok"
    THEN Ok((config.value.image_size \div config.value.patch_size)
            * (config.value.image_size \div config.value.patch_size))
    ELSE config

\* torch.zeros(1, hidden_size, device=..., dtype=...)
dummy_feature ==
    IF hidden_size.outcome # "ok" THEN hidden_size
    ELSE IF device.outcome # "ok" THEN device
    ELSE IF dtype.outcome # "ok" THEN dtype
    ELSE Ok(Tensor(dtype.value, device.value,
                   <<[h \in 1..hidden_size.value |-> 0]>>))

Accessors == {"dummy_feature", "dtype", "device", "config", "hidden_size",
              "num_patches_per_side", "num_patches"}

Property(name) ==
    CASE name = "dummy_feature" -> dummy_feature
      [] name = "dtype" -> dtype
      [] name = "device" -> device
      [] name = "config" -> config
      [] name = "hidden_size" -> hidden_size
      [] name = "num_patches_per_side" -> num_patches_per_side
      [] name = "num_patches" -> num_patches

----------------------------------------------------------------------------
(* forward *)

\* Mutant of CLIPForwardOne: the feature keeps the model's dtype.
CLIPForwardOneModelDType(image, feature) ==
    IF ~vision_tower.present THEN AttributeError("vision_tower")
    ELSE feature_select(HiddenStates(Unsqueeze0(To(image, device.value, dtype.value))),
                        select_layer, feature)

\* Lines 50-51, for one image of the list
CLIPForwardOne(image, feature) ==
    IF ~vision_tower.present THEN AttributeError("vision_tower")
    ELSE LET image_forward_out ==
                 HiddenStates(Unsqueeze0(To(image, device.value, dtype.value)))
             sel == feature_select(image_forward_out, select_layer, feature)
         IN IF sel.outcome = "ok" THEN Ok(ToDType(sel.value, image.dtype)) ELSE sel

\* Lines 54-55
CLIPForwardBatch(images, feature) ==
    IF ~vision_tower.present THEN AttributeError("vision_tower")
    ELSE LET image_forward_outs ==
                 HiddenStates(To(images, device.value, dtype.value))
             sel == feature_select(image_forward_outs, select_layer, feature)
         IN IF sel.outcome = "ok" THEN Ok(ToDType(sel.value, images.dtype)) ELSE sel

\* Mutant of CLIPForwardWith: each feature is inserted at the front of the list.
CLIPForwardPrepends(images, feature) ==
    LET image_features ==
          IF images.type = "list"
          THEN LET n == Len(images.items)
                   outs == [i \in 1..n |-> CLIPForwardOne(images.items[i], feature)]
                   bad == { i \in 1..n : outs[i].outcome # "ok" }
               IN IF bad # {}
                  THEN outs[CHOOSE i \in bad : \A j \in bad : i <= j]
                  ELSE Ok(PyList([i \in 1..n |-> outs[n + 1 - i].value]))
          ELSE CLIPForwardBatch(images, feature)
    IN IF image_features.outcome = "ok"
       THEN Ok(PyTuple(<<image_features.value, image_features.value>>))
       ELSE image_features

\* Lines 46-56 with self.select_feature = feature.  The loop stops at the
\* first image whose step raises.
CLIPForwardWith(images, feature) ==
    LET image_features ==
          IF images.type = "list"
          THEN LET n == Len(images.items)
                   outs == [i \in 1..n |-> CLIPForwardOne(images.items[i], feature)]
                   bad == { i \in 1..n : outs[i].outcome # "ok" }
               IN IF bad # {}
                  THEN outs[CHOOSE i \in bad : \A j \in bad : i <= j]
                  ELSE Ok(PyList([i \in 1..n |-> outs[i].value]))
          ELSE CLIPForwardBatch(images, feature)
    IN IF image_features.outcome = "ok"
       THEN Ok(PyTuple(<<image_features.value, image_features.value>>))
       ELSE image_features

CLIPForward(images) == CLIPForwardWith(images, select_feature)

\* Florence-2 generate() as patched to return
\* (generated_ids, image_feature, encoder_last_hidden_state)
Generate(model, input_ids, pixel_values) ==
    <<[name |-> "generated_ids", prompts |-> Len(input_ids)],
      Tensor(model.dtype, model.device,
             [b \in 1..Len(pixel_values.data) |-> <<"image_feature", pixel_values.data[b]>>]),
      Tensor(model.dtype, model.device,
             [b \in 1..Len(pixel_values.data) |-> <<"encoder_last_hidden_state", pixel_values.data[b]>>])>>

\* the three hard-coded prompts, by their row of the token table
task_ids == <<1, 2, 3>>

FlorenceForward(images) ==
    IF ~vision_tower.present THEN AttributeError("vision_tower")
    ELSE LET out == Generate(vision_tower, task_ids, images)
         IN Ok(PyTuple(<<out[2], out[3]>>))

forward ==
    /\ constructed
    /\ \E images \in (IF kind = "CLIP" THEN ImageLists \cup ImageBatches ELSE ImageBatches) :
         ret' = [op |-> "forward", images |-> images] @@
                (IF kind = "CLIP" THEN CLIPForward(images) ELSE FlorenceForward(images))
    /\ UNCHANGED <<kind, args, constructed, select_layer, select_feature, fields>>

get ==
    /\ constructed
    /\ \E name \in Accessors : ret' = [op |-> name] @@ Property(name)
    /\ UNCHANGED <<kind, args, constructed, select_layer, select_feature, fields>>

Next == Construct \/ load_model \/ forward \/ get

Spec == Init /\ [][Next]_vars
----------------------------------------------------------------------------
(* Properties checked *)

DelayedCLIP ==
    /\ kind = "CLIP"
    /\ args.delay_load
    /\ ~Truthy(GetAttr(args, "unfreeze_mm_vision_tower", "False"))

\* C1: each pretrained loader is invoked at most once over all load_model
\* calls made during and after construction: a load_model call made while
\* is_loaded is false loads (once) and sets is_loaded, and once is_loaded is
\* true no step loads again or changes is_loaded, the model or the processor.
C1_LoadAtMostOnce ==
    /\ [](/\ calls.processor <= 1
          /\ calls.model <= 1
          /\ (is_loaded <=> calls.model = 1)
          /\ (is_loaded <=> calls.processor = 1))
    /\ [][/\ (is_loaded =>
                /\ is_loaded'
                /\ calls' = calls
                /\ vision_tower' = vision_tower
                /\ image_processor' = image_processor)
          /\ (~is_loaded /\ ret'.op = "load_model" =>
                /\ is_loaded'
                /\ ~ret'.skipped
                /\ calls'.processor = 1
                /\ calls'.model = 1)]_vars

\* A delayed CLIP tower on which load_model was called again after the call
\* that loaded it.
C1_Witness ==
    /\ DelayedCLIP
    /\ ret.op = "load_model"
    /\ ret.skipped
    /\ calls.model = 1

\* C2: after construction the config accessor always returns a configuration
\* that was actually stored, for both towers and every flag combination.
C2_ConfigAlwaysSet ==
    constructed =>
        /\ config.outcome = "ok"
        /\ config.value.present
        /\ (ret.op = "config" => ret.outcome = "ok" /\ ret.value.present)

\* The Florence tower built with delay_load and no unfreeze, asked its config.
C2_Witness ==
    /\ kind = "Florence"
    /\ args.delay_load
    /\ args.unfreeze_mm_vision_tower = "absent"
    /\ ret.op = "config"
    /\ ret.outcome = "ok"

SizingAccessors == {"hidden_size", "num_patches", "num_patches_per_side", "dtype", "device"}

\* C3: right after construction, before any other call, each of hidden_size,
\* num_patches, num_patches_per_side, dtype and device returns a value.
C3_AccessorsReturnAfterConstruction ==
    ret.op = "__init__" => \A name \in SizingAccessors : Property(name).outcome = "ok"

ForwardReturned == ret.op = "forward" /\ ret.outcome = "ok"

\* f is the feature result for images, in the shape of images: a tensor with
\* one row per batch entry, or a list with one single-row tensor per image,
\* each computed from the image at the same position.
Mirrors(f, images) ==
    IF images.type = "tensor"
    THEN /\ f.type = "tensor"
         /\ Len(f.data) = Len(images.data)
         /\ \A b \in 1..Len(f.data) : \A p \in 1..Len(f.data[b]) :
                f.data[b][p][2] = images.data[b]
    ELSE /\ f.type = "list"
         /\ Len(f.items) = Len(images.items)
         /\ \A i \in 1..Len(f.items) :
                /\ f.items[i].type = "tensor"
                /\ Len(f.items[i].data) = 1
                /\ \A p \in 1..Len(f.items[i].data[1]) :
                       f.items[i].data[1][p][2] = images.items[i].data

\* C4 as stated: what the CLIP tower's forward returns is the feature tensor
\* (or the list of feature tensors) itself, mirroring the input.
C4_CLIPReturnsBareFeatures ==
    kind = "CLIP" /\ ForwardReturned => Mirrors(ret.value, ret.images)

\* C4 amended: the CLIP tower's forward returns a pair whose two components
\* are the same feature result, and that result mirrors the input; the
\* Florence tower's forward returns the pair (feature, last hidden state).
C4_CLIPReturnsPairOfMirroredFeatures ==
    ForwardReturned =>
        /\ ret.value.type = "tuple"
        /\ Len(ret.value.items) = 2
        /\ kind = "CLIP" =>
             /\ ret.value.items[1] = ret.value.items[2]
             /\ Mirrors(ret.value.items[1], ret.images)
        /\ kind = "Florence" =>
             /\ ret.value.items[1].type = "tensor"
             /\ ret.value.items[2].type = "tensor"
             /\ \A b \in 1..Len(ret.images.data) :
                  /\ ret.value.items[1].data[b] = <<"image_feature", ret.images.data[b]>>
                  /\ ret.value.items[2].data[b] = <<"encoder_last_hidden_state", ret.images.data[b]>>

\* CLIP forward returned for a list of two different images.
C4_Witness ==
    /\ kind = "CLIP"
    /\ ForwardReturned
    /\ ret.images.type = "list"
    /\ Len(ret.images.items) = 2
    /\ ret.images.items[1].data # ret.images.items[2].data

\* patch is cls with the first token of every row removed.
DropsFirstToken(patch, cls) ==
    /\ patch.type = "tensor" /\ cls.type = "tensor"
    /\ patch.dtype = cls.dtype
    /\ Len(patch.data) = Len(cls.data)
    /\ \A b \in 1..Len(cls.data) :
         /\ Len(cls.data[b]) = 1 + NumPatches
         /\ Len(patch.data[b]) = Len(cls.data[b]) - 1
         /\ \A p \in 1..Len(patch.data[b]) : patch.data[b][p] = cls.data[b][p + 1]
         /\ cls.data[b][1][3] = 0

\* C5: what forward returns with select_feature = "patch" is what it returns
\* for the same input with "cls_patch", less the token at index 0 of the
\* sequence dimension: same remaining tokens in the same order, one fewer,
\* batch dimension unchanged.
C5_PatchDropsFirstToken ==
    kind = "CLIP" /\ ForwardReturned /\ select_feature = "patch" =>
        LET patch == ret.value.items[1]
            cls == CLIPForwardWith(ret.images, "cls_patch").value.items[1]
        IN IF ret.images.type = "tensor"
           THEN DropsFirstToken(patch, cls)
           ELSE /\ Len(patch.items) = Len(cls.items)
                /\ \A i \in 1..Len(cls.items) : DropsFirstToken(patch.items[i], cls.items[i])

\* forward returned patch features for a batch of two images.
C5_Witness ==
    /\ kind = "CLIP"
    /\ ForwardReturned
    /\ select_feature = "patch"
    /\ ret.images.type = "tensor"
    /\ Len(ret.images.data) = 2
    /\ Len(ret.value.items[1].data[1]) = NumPatches

\* C6: on a CLIP tower whose select_feature is neither "patch" nor
\* "cls_patch" (taken here loaded and with select_layer in range), every
\* forward call raises the error naming that value, while construction and
\* load_model do not raise.
C6_InvalidModeAlwaysRaises ==
    /\ kind = "CLIP"
    /\ constructed
    /\ is_loaded
    /\ PyIndexOk([l \in 1..NumHiddenStates |-> l], select_layer)
    /\ select_feature \notin {"patch", "cls_patch"}
    =>
    /\ ret.op = "forward" =>
         /\ ret.outcome = "ValueError"
         /\ ret.message[2] = select_feature
    /\ ret.op \in {"__init__", "load_model"} => ret.outcome = "ok"

\* C7: config returns the cached pre-load config while is_loaded is false and
\* the loaded model's config while is_loaded is true, and once it returns the
\* model's config it never returns the cached one again.
C7_ConfigFollowsIsLoaded ==
    /\ [](constructed =>
            /\ config.outcome = "ok"
            /\ (~is_loaded => config.value = PretrainedConfig("cfg_only")
                              /\ config.value = cfg_only)
            /\ (is_loaded => config.value.of = "model"
                             /\ config.value = vision_tower.config)
            /\ (ret.op = "config" => ret.value = config.value))
    /\ [][constructed /\ config.value.of = "model" => config'.value.of = "model"]_vars

\* A delayed CLIP tower, loaded later, asked its config.
C7_Witness ==
    /\ DelayedCLIP
    /\ is_loaded
    /\ ret.op = "config"
    /\ ret.value.of = "model"

\* C8: every feature tensor the CLIP tower's forward returns has the dtype of
\* the input image it was computed from, per element for list input.
C8_OutputDTypeIsInputDType ==
    kind = "CLIP" /\ ForwardReturned =>
        \A k \in 1..2 :
            LET f == ret.value.items[k] IN
            IF ret.images.type = "tensor"
            THEN f.dtype = ret.images.dtype
            ELSE \A i \in 1..Len(ret.images.items) :
                     f.items[i].dtype = ret.images.items[i].dtype

\* A list of two images of different dtypes, the first not the model's.
C8_Witness ==
    /\ kind = "CLIP"
    /\ ForwardReturned
    /\ ret.images.type = "list"
    /\ Len(ret.images.items) = 2
    /\ ret.images.items[1].dtype # ret.images.items[2].dtype
    /\ ret.images.items[1].dtype # vision_tower.dtype
    /\ ret.value.items[1].items[1].dtype # vision_tower.dtype

\* C9: whenever is_loaded is true the held model is frozen, also when
\* unfreeze_mm_vision_tower is true, and no step taken while is_loaded is
\* true changes the model (weights, frozen flag), the processor or is_loaded.
C9_LoadedModelFrozenAndUntouched ==
    /\ [](is_loaded =>
            /\ vision_tower.present
            /\ ~vision_tower.requires_grad
            /\ vision_tower.weights = "pretrained")
    /\ [][is_loaded =>
            /\ is_loaded'
            /\ vision_tower' = vision_tower
            /\ image_processor' = image_processor]_vars

\* A tower built with unfreeze_mm_vision_tower true, after a forward call.
C9_Witness ==
    /\ args.unfreeze_mm_vision_tower = "True"
    /\ is_loaded
    /\ ForwardReturned

\* C10: right after construction the CLIP tower is unloaded exactly when
\* delay_load is true and unfreeze_mm_vision_tower is false or absent, and
\* then holds the cached config and no model; the Florence tower is loaded
\* for every flag combination.
C10_LoadedAfterConstruction ==
    ret.op = "__init__" =>
        /\ kind = "CLIP" =>
             /\ is_loaded <=> ~(args.delay_load /\ args.unfreeze_mm_vision_tower \in {"False", "absent"})
             /\ ~is_loaded => cfg_only.present /\ ~vision_tower.present /\ ~image_processor.present
             /\ is_loaded => vision_tower.present
        /\ kind = "Florence" => is_loaded /\ vision_tower.present

\* The Florence tower just built with delay_load and unfreeze false.
C10_Witness ==
    /\ ret.op = "__init__"
    /\ kind = "Florence"
    /\ args.delay_load
    /\ args.unfreeze_mm_vision_tower = "False"
    /\ is_loaded
====
